---- MODULE Spec2Model ----
(***************************************************************************)
(* Wraith desktop shell (src-tauri/src/lib.rs): system tray, update        *)
(* commands, deep links, notifications and startup, as a state machine.    *)
(*                                                                         *)
(* Tray and menu callbacks run to completion on the event loop, so each    *)
(* is one action.  check_for_updates and install_update are async          *)
(* commands: every invocation is its own task, and a task gives up         *)
(* control at each .await, so a task is a sequence of actions that         *)
(* interleave with those of the other tasks and with the callbacks.        *)
(***************************************************************************)
EXTENDS Integers, Sequences, FiniteSets, TLC

\* Bounds of the model.
MaxCalls == 2      \* command tasks that can be in flight together
MaxVersion == 2    \* versions are 0..MaxVersion
MaxLinks == 2      \* deep-link activations the OS delivers

Calls == 1..MaxCalls
Versions == 0..MaxVersion

\* Menu ids a menu event can carry: the three built at lines 36-38 and two
\* that are none of them (the match is exact: "Show" is not "show").
MenuIds == {"show", "hide", "quit", "Show", "settings"}

\* tauri::tray::TrayIconEvent: Click carries a button and a button state,
\* DoubleClick a button, Move (like Enter and Leave) neither.
Buttons == {"Left", "Right", "Middle"}
ButtonStates == {"Up", "Down"}
TrayIconEvents ==
    [type : {"Click"}, button : Buttons, button_state : ButtonStates]
    \cup [type : {"DoubleClick"}, button : {"Left"}, button_state : {"-"}]
    \cup [type : {"Move"}, button : {"-"}, button_state : {"-"}]
NoEvent == [type |-> "-", button |-> "-", button_state |-> "-"]

VARIABLES
    phase,            \* "setup", "running" or "exited"
    exitCode,         \* the exit codes requested through app.exit: {} or {0}
    restartRequested, \* TRUE once the process has been asked to restart
    trayBuilt,        \* setup_system_tray returned Ok
    schemeRegistered, \* tauri_plugin_deep_link::register returned Ok
    mainExists,       \* get_webview_window("main") is Some
    visible,          \* the main window is shown
    focused,          \* the main window has the focus
    windowOps,        \* the window calls issued by the last step, in order
    remote,           \* the manifests the update endpoint serves: {} or {v}
    current,          \* the running version, fixed for the process
    lastCheck,        \* what the last finished check_for_updates returned
    pc,               \* per task: "idle", or the .await it is suspended at:
                      \* "check" or "download_and_install"
    cmd,              \* per task: "check_for_updates" or "install_update"
    checkedSince,     \* a check_for_updates has returned since an
                      \* install_update that is still in flight was invoked
    subscribed,       \* the front end listens for "deep-link" events
    links,            \* per activation received, in order: whether a listener
                      \* was attached when it arrived (sub) and how many
                      \* times a listener has observed it (seen)
    pending,          \* activations the application holds for a later listener
    lastInfo,         \* what the previous get_system_info call returned
    ev                \* the last step taken, what it returned to its caller
                      \* and the window state before it

vars == <<phase, exitCode, restartRequested, trayBuilt, schemeRegistered,
          mainExists, visible, focused, windowOps, remote, current, lastCheck,
          pc, cmd, checkedSince, subscribed, links, pending, lastInfo, ev>>

trayVars == <<mainExists, visible, focused>>
updateVars == <<remote, current, lastCheck, pc, cmd, checkedSince>>
appVars == <<phase, exitCode, restartRequested, trayBuilt, schemeRegistered>>
linkVars == <<subscribed, links, pending>>

NoInfo == [platform |-> "-", arch |-> "-", family |-> "-"]

\* The record of a step: what ran, and the window as it was before.
Step(op, call, id, event, outcome, ret) ==
    [op |-> op, call |-> call, id |-> id, event |-> event, outcome |-> outcome,
     ret |-> ret, visible |-> visible, focused |-> focused, exists |-> mainExists]

Init ==
    /\ phase = "setup"
    /\ exitCode = {}
    /\ restartRequested = FALSE
    /\ trayBuilt = FALSE
    /\ schemeRegistered = FALSE
    /\ mainExists \in BOOLEAN
    /\ visible \in {FALSE, mainExists}
    /\ focused = visible
    /\ windowOps = <<>>
    /\ remote \in {{}} \cup {{v} : v \in Versions}
    /\ current = 1
    /\ lastCheck = "none"
    /\ pc = [p \in Calls |-> "idle"]
    /\ cmd = [p \in Calls |-> "-"]
    /\ checkedSince = FALSE
    /\ subscribed = FALSE
    /\ links = <<>>
    /\ pending = {}
    /\ lastInfo = NoInfo
    /\ ev = Step("init", 0, "-", NoEvent, "-", "-")

(***************************************************************************)
(* The window "main" (tauri::WebviewWindow).  show, set_focus and hide     *)
(* return a Result the handlers discard with `let _ =`, so a call either   *)
(* takes effect (ok) or leaves the window as it was.                       *)
(***************************************************************************)
WindowCall(w, op, ok) ==
    CASE op = "show" ->
           [visible |-> IF ok THEN TRUE ELSE w.visible, focused |-> w.focused]
      [] op = "set_focus" ->
           [visible |-> w.visible,
            focused |-> IF ok /\ w.visible THEN TRUE ELSE w.focused]
      [] op = "hide" ->
           [visible |-> IF ok THEN FALSE ELSE w.visible,
            focused |-> IF ok THEN FALSE ELSE w.focused]

RECURSIVE ApplyOps(_, _, _)
ApplyOps(w, ops, oks) ==
    IF ops = <<>> THEN w
    ELSE ApplyOps(WindowCall(w, Head(ops), Head(oks)), Tail(ops), Tail(oks))

\* The match with a default arm that hides the window.
MenuCommandDefaultHide(id) ==
    CASE id = "show" -> "Show"
      [] id = "hide" -> "Hide"
      [] id = "quit" -> "Quit"
      [] OTHER -> "Hide"

\* lines 15-31: the match on the menu id.
MenuCommand(id) ==
    CASE id = "show" -> "Show"
      [] id = "hide" -> "Hide"
      [] id = "quit" -> "Quit"
      [] OTHER -> "Ignore"

\* The window calls with the bodies of the two arms exchanged.
CommandOpsSwapped(command, exists) ==
    IF ~exists THEN <<>>
    ELSE CASE command = "Show" -> <<"hide">>
           [] command = "Hide" -> <<"show", "set_focus">>
           [] OTHER -> <<>>

\* The arms without `if let Some(window)`: the calls are made whether or
\* not the lookup found a window.
CommandOpsUnchecked(command, exists) ==
    CASE command = "Show" -> <<"show", "set_focus">>
      [] command = "Hide" -> <<"hide">>
      [] OTHER -> <<>>

\* lines 17-20, 23-25, 60-63: the window calls a command makes, in order,
\* given what get_webview_window("main") returned.
CommandOps(command, exists) ==
    IF ~exists THEN <<>>
    ELSE CASE command = "Show" -> <<"show", "set_focus">>
           [] command = "Hide" -> <<"hide">>
           [] OTHER -> <<>>

\* The "quit" arm exiting with a failure code.
ExitRequestCodeOne(command) ==
    IF command = "Quit" THEN {1} ELSE {}

\* lines 27-29: app.exit(0).
ExitRequest(command) ==
    IF command = "Quit" THEN {0} ELSE {}

\* The pattern without the button_state field: any left click.
TrayIconCommandAnyState(event) ==
    IF event.type = "Click" /\ event.button = "Left"
    THEN "Show"
    ELSE "Ignore"

\* A callback that hides the window on the left button's release.
TrayIconCommandHides(event) ==
    IF event.type = "Click" /\ event.button = "Left" /\ event.button_state = "Up"
    THEN "Hide"
    ELSE "Ignore"

\* lines 53-57: the pattern of the tray icon callback.
TrayIconCommand(event) ==
    IF event.type = "Click" /\ event.button = "Left" /\ event.button_state = "Up"
    THEN "Show"
    ELSE "Ignore"

\* A callback that carries out `command`: its window calls, each of which
\* may fail, and its exit request.  The exit ends the event loop and, with
\* the process, every command task still in flight.
Perform(command) ==
    LET ops == CommandOps(command, mainExists)
        req == ExitRequest(command)
    IN /\ \E oks \in [1..Len(ops) -> BOOLEAN] :
            LET w == ApplyOps([visible |-> visible, focused |-> focused], ops, oks)
            IN /\ visible' = w.visible
               /\ focused' = w.focused
       /\ windowOps' = ops
       /\ exitCode' = exitCode \cup req
       /\ IF req = {}
          THEN UNCHANGED <<phase, pc, cmd, checkedSince>>
          ELSE /\ phase' = "exited"
               /\ pc' = [p \in Calls |-> "idle"]
               /\ cmd' = [p \in Calls |-> "-"]
               /\ checkedSince' = FALSE
       /\ UNCHANGED <<mainExists, restartRequested, trayBuilt, schemeRegistered>>
       /\ UNCHANGED <<remote, current, lastCheck>>
       /\ UNCHANGED <<linkVars, lastInfo>>

\* lines 14-32, registered as the tray's on_menu_event at lines 49-51.
handle_tray_menu_event(id) ==
    /\ phase = "running"
    /\ trayBuilt
    /\ Perform(MenuCommand(id))
    /\ ev' = Step("menu", 0, id, NoEvent, "-", "-")

\* lines 52-65: the tray's on_tray_icon_event closure.
on_tray_icon_event(event) ==
    /\ phase = "running"
    /\ trayBuilt
    /\ Perform(TrayIconCommand(event))
    /\ ev' = Step("tray", 0, "-", event, "-", "-")

\* The window loses the focus to another application.
Blur ==
    /\ phase = "running"
    /\ focused
    /\ focused' = FALSE
    /\ windowOps' = <<>>
    /\ ev' = Step("blur", 0, "-", NoEvent, "-", "-")
    /\ UNCHANGED <<mainExists, visible>>
    /\ UNCHANGED appVars
    /\ UNCHANGED updateVars
    /\ UNCHANGED <<linkVars, lastInfo>>

(***************************************************************************)
(* Startup: the setup closure of run, lines 131-149.  A failure of         *)
(* setup_system_tray is printed and dropped, the result of register is     *)
(* dropped by .ok(), and the closure returns Ok(()).                       *)
(***************************************************************************)
\* lines 35-69: the menu items and the menu (lines 36-45) and then the tray
\* icon (lines 47-66) are built, each with `?`.
setup_system_tray(menuOk, iconOk) ==
    IF menuOk /\ iconOk THEN "Ok" ELSE "Err"

\* The closure with `setup_system_tray(app.handle())?`: a tray failure
\* leaves it before the registration.
RegisterReachedAfterTray(tray) == tray = "Ok"

\* lines 135-142: whether the closure gets to register the scheme, given
\* what setup_system_tray returned.  The error is printed, not returned.
RegisterReached(tray) == TRUE

\* lines 135-148: what the closure returns.
SetupResult(tray, registerOk) == "Ok"

\* lines 131-149.  Had the closure returned Err, run would end in the
\* panic of .expect (line 157).
setup(menuOk, iconOk, registerOk) ==
    LET tray == setup_system_tray(menuOk, iconOk)
        registered == RegisterReached(tray) /\ registerOk
        result == SetupResult(tray, registerOk)
    IN /\ phase = "setup"
       /\ trayBuilt' = (tray = "Ok")
       /\ schemeRegistered' = registered
       /\ phase' = IF result = "Ok" THEN "running" ELSE "exited"
       /\ exitCode' = IF result = "Ok" THEN exitCode ELSE {101}
       /\ windowOps' = <<>>
       /\ ev' = Step("setup", 0,
                     IF menuOk THEN (IF iconOk THEN "tray_ok" ELSE "icon_failed")
                     ELSE "menu_failed",
                     NoEvent,
                     IF registerOk THEN "register_ok" ELSE "register_failed",
                     result)
       /\ UNCHANGED restartRequested
       /\ UNCHANGED trayVars
       /\ UNCHANGED updateVars
       /\ UNCHANGED <<linkVars, lastInfo>>

(***************************************************************************)
(* Deep links, lines 140-146.  The closure given to register runs on each  *)
(* activation of the scheme and emits one "deep-link" event; emit reaches  *)
(* the listeners attached at that moment, and its Result is discarded.     *)
(***************************************************************************)
\* The closure emitting the event twice.
LinkEmitsTwice == <<"deep-link", "deep-link">>

\* line 144: the events the closure emits for one activation.
LinkEmits == <<"deep-link">>

\* The closure keeping an activation that found no listener.
RetainedWhenUnheard(listening, id) == IF listening THEN {} ELSE {id}

\* lines 142-145: the activations the closure keeps for later delivery:
\* none, it holds no state besides the app handle.
Retained(listening, id) == {}

\* A handler that serves one activation and then drops the registration.
RegisteredAfterLinkOnce(registered) == FALSE

\* lines 142-145: the closure leaves the registration as it is.
RegisteredAfterLink(registered) == registered

\* The OS activates the scheme and the closure runs.
on_deep_link(emitOk) ==
    /\ phase = "running"
    /\ schemeRegistered
    /\ Len(links) < MaxLinks
    /\ LET id == Len(links) + 1
           n == IF subscribed /\ emitOk THEN Len(LinkEmits) ELSE 0
       IN /\ links' = Append(links, [sub |-> subscribed, seen |-> n])
          /\ pending' = pending \cup Retained(subscribed, id)
          /\ ev' = Step("deep_link", 0, "deep-link", NoEvent,
                        IF n > 0 THEN "delivered" ELSE "dropped", "-")
    /\ schemeRegistered' = RegisteredAfterLink(schemeRegistered)
    /\ windowOps' = <<>>
    /\ UNCHANGED <<phase, exitCode, restartRequested, trayBuilt>>
    /\ UNCHANGED trayVars
    /\ UNCHANGED updateVars
    /\ UNCHANGED <<subscribed, lastInfo>>

\* The front end attaches its listener; what the application held for it
\* is delivered now.
Subscribe ==
    /\ phase = "running"
    /\ ~subscribed
    /\ subscribed' = TRUE
    /\ links' = [i \in DOMAIN links |->
                   IF i \in pending THEN [links[i] EXCEPT !.seen = @ + 1]
                   ELSE links[i]]
    /\ pending' = {}
    /\ windowOps' = <<>>
    /\ ev' = Step("subscribe", 0, "deep-link", NoEvent, "-", "-")
    /\ UNCHANGED appVars
    /\ UNCHANGED trayVars
    /\ UNCHANGED updateVars
    /\ UNCHANGED lastInfo

\* The front end detaches its listener (the page is reloaded).
Unsubscribe ==
    /\ phase = "running"
    /\ subscribed
    /\ subscribed' = FALSE
    /\ windowOps' = <<>>
    /\ ev' = Step("unsubscribe", 0, "deep-link", NoEvent, "-", "-")
    /\ UNCHANGED appVars
    /\ UNCHANGED trayVars
    /\ UNCHANGED updateVars
    /\ UNCHANGED <<links, pending, lastInfo>>

(***************************************************************************)
(* The synchronous commands, lines 71-79 and 108-121.                      *)
(***************************************************************************)
\* A get_system_info that reports the platform from the window state.
get_system_info_stateful ==
    [platform |-> IF visible THEN "linux" ELSE "headless",
     arch |-> "x86_64", family |-> "unix"]

\* lines 73-79: std::env::consts::{OS, ARCH, FAMILY}, fixed by the build
\* (here a Linux build for x86_64).
get_system_info ==
    [platform |-> "linux", arch |-> "x86_64", family |-> "unix"]

\* The front end invokes get_system_info.
SystemInfo ==
    /\ phase = "running"
    /\ lastInfo' = get_system_info
    /\ windowOps' = <<>>
    /\ ev' = Step("get_system_info", 0, "-", NoEvent, "-",
                  IF lastInfo = NoInfo THEN "first" ELSE "again")
    /\ UNCHANGED appVars
    /\ UNCHANGED trayVars
    /\ UNCHANGED updateVars
    /\ UNCHANGED linkVars

\* show_notification discarding the error of show().
NotificationResultDropped(showOk) == "ok"

\* lines 113-120: .show().map_err(|e| e.to_string())?; Ok(()).
NotificationResult(showOk) == IF showOk THEN "ok" ELSE "err"

\* lines 109-121: the front end invokes show_notification; the title and
\* the body go to the builder and do not bear on the result.
show_notification(showOk) ==
    /\ phase = "running"
    /\ windowOps' = <<>>
    /\ ev' = Step("show_notification", 0, "-", NoEvent,
                  IF showOk THEN "shown" ELSE "show_failed",
                  NotificationResult(showOk))
    /\ UNCHANGED appVars
    /\ UNCHANGED trayVars
    /\ UNCHANGED updateVars
    /\ UNCHANGED <<linkVars, lastInfo>>

(***************************************************************************)
(* Update commands, lines 82-106.  The updater plugin is the remote        *)
(* update source: check() fails, or yields the served manifest when its    *)
(* version is greater than the running one, or yields nothing.             *)
(***************************************************************************)
Commands == {"check_for_updates", "install_update"}

Newer(manifests, running) == \E v \in manifests : v > running

\* updater.check().await, lines 86 and 98.
UpdaterCheck(manifests, running, netOk) ==
    IF ~netOk THEN "err"
    ELSE IF Newer(manifests, running) THEN "some" ELSE "none"

\* lines 84 and 96: app.updater().map_err(|e| e.to_string())? returns the
\* error to the caller; otherwise the task goes on to updater.check().
UpdaterResult(updaterOk) == IF updaterOk THEN "-" ELSE "err"

\* The match with Ok(_) => Ok(true).
CheckResultAnyOk(outcome) ==
    IF outcome = "err" THEN "err" ELSE "true"

\* lines 86-90: the match of check_for_updates on the check's outcome.
CheckResult(outcome) ==
    CASE outcome = "some" -> "true"
      [] outcome = "none" -> "false"
      [] outcome = "err" -> "err"

\* check_for_updates installing what it finds, as install_update does.
DownloadsFromCheck(command, outcome) ==
    outcome = "some"

\* install_update with `if let Ok(_)`: it goes on whenever the check did
\* not fail.
DownloadsUnlessErr(command, outcome) ==
    command = "install_update" /\ outcome # "err"

\* lines 86-90 and 98-103: whether a command goes on to download_and_install
\* once its check has resolved.  check_for_updates has no such call;
\* install_update makes it under `if let Ok(Some(update))`.
Downloads(command, outcome) ==
    command = "install_update" /\ outcome = "some"

\* install_update with `updater.check().await.map_err(...)?`: the check's
\* error goes to the caller.
InstallSkipResultPropagates(outcome) ==
    IF outcome = "err" THEN "err" ELSE "ok"

\* lines 98 and 105: what install_update returns when it does not download.
InstallSkipResult(outcome) == "ok"

\* lines 99-105: what install_update returns after download_and_install.
InstallResult(installOk) == IF installOk THEN "ok" ELSE "err"

\* lines 100-105: whether install_update asks for a restart once
\* download_and_install has returned Ok.  It returns Ok(()) and nothing else.
RestartAfterInstall(installOk) == FALSE

\* What a step of a command task leaves alone: the window and the process.
CommandFrame ==
    /\ windowOps' = <<>>
    /\ UNCHANGED trayVars
    /\ UNCHANGED <<phase, exitCode, trayBuilt, schemeRegistered>>
    /\ UNCHANGED <<linkVars, lastInfo>>

OtherInstalls(p) == {q \in Calls \ {p} : cmd[q] = "install_update"}

\* The task of a command that has returned is gone.
Finish(p) ==
    /\ pc' = [pc EXCEPT ![p] = "idle"]
    /\ cmd' = [cmd EXCEPT ![p] = "-"]
    /\ checkedSince' = IF cmd[p] = "check_for_updates"
                       THEN OtherInstalls(p) # {}
                       ELSE checkedSince /\ OtherInstalls(p) # {}

\* The front end invokes a command and its task runs to the first .await
\* (the tasks are interchangeable: a new one takes the lowest free slot).
\* lines 84 and 96: app.updater() fails and the command returns Err, or the
\* task waits on updater.check().
Invoke(p, command, updaterOk) ==
    /\ phase = "running"
    /\ pc[p] = "idle"
    /\ \A q \in Calls : q < p => pc[q] # "idle"
    /\ IF updaterOk
       THEN /\ pc' = [pc EXCEPT ![p] = "check"]
            /\ cmd' = [cmd EXCEPT ![p] = command]
            /\ UNCHANGED <<lastCheck, checkedSince>>
       ELSE /\ lastCheck' = IF command = "check_for_updates"
                            THEN UpdaterResult(updaterOk) ELSE lastCheck
            /\ checkedSince' = IF command = "check_for_updates"
                               THEN OtherInstalls(p) # {} ELSE checkedSince
            /\ UNCHANGED <<pc, cmd>>
    /\ ev' = Step("invoke", p, command, NoEvent, "-", UpdaterResult(updaterOk))
    /\ CommandFrame
    /\ UNCHANGED <<remote, current, restartRequested>>

\* updater.check() resolves and the task runs on: lines 86-90 for
\* check_for_updates, lines 98-100 and 105 for install_update.
CheckResolved(p, netOk) ==
    /\ phase = "running"
    /\ pc[p] = "check"
    /\ LET outcome == UpdaterCheck(remote, current, netOk)
           result == IF cmd[p] = "check_for_updates" THEN CheckResult(outcome)
                     ELSE InstallSkipResult(outcome)
       IN IF Downloads(cmd[p], outcome)
          THEN /\ pc' = [pc EXCEPT ![p] = "download_and_install"]
               /\ ev' = Step("checked", p, cmd[p], NoEvent, outcome, "-")
               /\ UNCHANGED <<cmd, lastCheck, checkedSince>>
          ELSE /\ Finish(p)
               /\ ev' = Step("checked", p, cmd[p], NoEvent, outcome, result)
               /\ lastCheck' = IF cmd[p] = "check_for_updates"
                               THEN result ELSE lastCheck
    /\ CommandFrame
    /\ UNCHANGED <<remote, current, restartRequested>>

\* lines 99-105: update.download_and_install(|_chunk, _total| {}, || {})
\* resolves, both closures having done nothing, and install_update returns:
\* the error as a string, or Ok(()).
Installed(p, installOk) ==
    /\ phase = "running"
    /\ pc[p] = "download_and_install"
    /\ Finish(p)
    /\ restartRequested' = (restartRequested \/ RestartAfterInstall(installOk))
    /\ ev' = Step("installed", p, cmd[p], NoEvent, "-", InstallResult(installOk))
    /\ CommandFrame
    /\ UNCHANGED <<remote, current, lastCheck>>

\* The update endpoint starts serving a later release.
Publish(v) ==
    /\ phase = "running"
    /\ \A u \in remote : u < v
    /\ remote' = {v}
    /\ ev' = Step("publish", 0, "-", NoEvent, "-", "-")
    /\ CommandFrame
    /\ UNCHANGED <<current, lastCheck, pc, cmd, checkedSince, restartRequested>>

Next ==
    \/ \E menuOk \in BOOLEAN, iconOk \in BOOLEAN, registerOk \in BOOLEAN :
          setup(menuOk, iconOk, registerOk)
    \/ \E id \in MenuIds : handle_tray_menu_event(id)
    \/ \E event \in TrayIconEvents : on_tray_icon_event(event)
    \/ Blur
    \/ \E p \in Calls, c \in Commands, updaterOk \in BOOLEAN : Invoke(p, c, updaterOk)
    \/ \E p \in Calls, netOk \in BOOLEAN : CheckResolved(p, netOk)
    \/ \E p \in Calls, installOk \in BOOLEAN : Installed(p, installOk)
    \/ \E v \in Versions : Publish(v)
    \/ \E showOk \in BOOLEAN : show_notification(showOk)

Spec == Init /\ [][Next]_vars

\* The program when the front end issues no update command: deep links,
\* listeners, get_system_info and the tray.
NextLink ==
    \/ \E menuOk \in BOOLEAN, iconOk \in BOOLEAN, registerOk \in BOOLEAN :
          setup(menuOk, iconOk, registerOk)
    \/ \E id \in MenuIds : handle_tray_menu_event(id)
    \/ \E event \in TrayIconEvents : on_tray_icon_event(event)
    \/ Blur
    \/ \E emitOk \in BOOLEAN : on_deep_link(emitOk)
    \/ Subscribe
    \/ Unsubscribe
    \/ SystemInfo

SpecLink == Init /\ [][NextLink]_vars

\* get_system_info called between update commands, the tray's menu
\* commands and deep links (no listener attached).
NextInfo ==
    \/ \E menuOk \in BOOLEAN, iconOk \in BOOLEAN, registerOk \in BOOLEAN :
          setup(menuOk, iconOk, registerOk)
    \/ \E id \in {"show", "hide", "quit"} : handle_tray_menu_event(id)
    \/ \E p \in Calls, c \in Commands, updaterOk \in BOOLEAN : Invoke(p, c, updaterOk)
    \/ \E p \in Calls, netOk \in BOOLEAN : CheckResolved(p, netOk)
    \/ \E p \in Calls, installOk \in BOOLEAN : Installed(p, installOk)
    \/ \E v \in Versions : Publish(v)
    \/ \E emitOk \in BOOLEAN : on_deep_link(emitOk)
    \/ SystemInfo

SpecInfo == Init /\ [][NextInfo]_vars

TypeOK ==
    /\ phase \in {"setup", "running", "exited"}
    /\ exitCode \in {{}, {0}}
    /\ visible => mainExists
    /\ focused => visible
    /\ \A p \in Calls : pc[p] \in {"idle", "check", "download_and_install"}
    /\ subscribed \in BOOLEAN
    /\ Len(links) <= MaxLinks
    /\ \A i \in DOMAIN links : links[i].sub \in BOOLEAN /\ links[i].seen \in Nat
    /\ pending \subseteq DOMAIN links
    /\ lastInfo \in {NoInfo, get_system_info}

(***************************************************************************)
(* Properties.  Every action records itself in ev, so a state predicate    *)
(* over ev speaks of the step that led to the state: ev.visible,           *)
(* ev.focused and ev.exists are the window before that step.               *)
(***************************************************************************)
InFlight(command, at) == {p \in Calls : cmd[p] = command /\ pc[p] = at}

\* C1: at most one install flow is downloading/installing at any time (an
\* install_update overlapping an earlier one does not start a second
\* download).
C1_AtMostOneInstallInFlight ==
    Cardinality(InFlight("install_update", "download_and_install")) <= 1

\* C2: an install_update invoked while a check_for_updates is still in
\* flight returns AlreadyInProgress and starts no check of its own (the
\* invocations that fail for want of an updater are left aside).
C2_InstallDuringCheckRejected ==
    (/\ ev.op = "invoke"
     /\ ev.id = "install_update"
     /\ ev.ret # "err"
     /\ InFlight("check_for_updates", "check") # {})
    => (ev.ret = "AlreadyInProgress" /\ pc[ev.call] = "idle")

\* C3: check_for_updates returns true exactly when the check succeeds and
\* the update source serves, as the check resolves, a manifest newer than
\* the running version; false exactly when the check succeeds and there is
\* no such manifest; an error exactly when the check fails.  Before the
\* check it can only return the error of app.updater().
C3_CheckTrueIffNewer ==
    /\ (ev.op = "checked" /\ ev.id = "check_for_updates") =>
          /\ (ev.ret = "true") <=> (ev.outcome # "err" /\ Newer(remote, current))
          /\ (ev.ret = "false") <=> (ev.outcome # "err" /\ ~Newer(remote, current))
          /\ (ev.ret = "err") <=> (ev.outcome = "err")
          /\ lastCheck = ev.ret
    /\ (ev.op = "invoke" /\ ev.id = "check_for_updates") => ev.ret \in {"-", "err"}

C3_Witness ==
    /\ ev.op = "checked"
    /\ ev.id = "check_for_updates"
    /\ Newer(remote, current)
    /\ ev.ret = "true"

\* C4: check_for_updates performs no download: its task is never at
\* download_and_install, and none of its steps issues a window call,
\* changes the window, or asks for a restart or an exit.
C4_CheckPerformsNoDownload ==
    /\ InFlight("check_for_updates", "download_and_install") = {}
    /\ ev.id = "check_for_updates" =>
          /\ windowOps = <<>>
          /\ visible = ev.visible /\ focused = ev.focused /\ mainExists = ev.exists
          /\ ~restartRequested
          /\ phase = "running"
          /\ (ev.op = "checked" => pc[ev.call] = "idle")

C4_Witness ==
    /\ ev.op = "checked"
    /\ ev.id = "check_for_updates"
    /\ ev.outcome = "some"
    /\ ev.ret = "true"
    /\ pc[ev.call] = "idle"

\* C5 as stated: if the most recent check_for_updates found no update (and
\* none has returned since install_update was invoked), install_update is a
\* no-op that returns success and starts no download.
C5_NoUpdateAtLastCheckIsNoOp ==
    (/\ ev.op = "checked"
     /\ ev.id = "install_update"
     /\ lastCheck = "false"
     /\ ~checkedSince)
    => (ev.ret = "ok" /\ pc[ev.call] = "idle")

\* C5 amended: if the check that install_update itself runs finds no
\* update, install_update is a no-op that returns success: it starts no
\* download and no install, and its flow is over.
C5_NoUpdateAtOwnCheckIsNoOp ==
    (ev.op = "checked" /\ ev.id = "install_update" /\ ev.outcome = "none")
    => /\ ev.ret = "ok"
       /\ pc[ev.call] = "idle"
       /\ windowOps = <<>>
       /\ ~restartRequested

C5_Witness ==
    /\ ev.op = "checked"
    /\ ev.id = "install_update"
    /\ ev.outcome = "none"
    /\ ~Newer(remote, current)
    /\ ev.ret = "ok"
    /\ pc[ev.call] = "idle"

\* C6: when install_update's download and installation succeed, a process
\* restart is then requested.
C6_SuccessfulInstallRestarts ==
    (ev.op = "installed" /\ ev.ret = "ok") => restartRequested

\* C7 as stated: the "show" menu command while the window is visible, and
\* "hide" while it is hidden, leave the visibility unchanged and issue no
\* window call.
C7_RepeatedShowHideIssuesNoCall ==
    (/\ ev.op = "menu"
     /\ \/ ev.id = "show" /\ ev.visible
        \/ ev.id = "hide" /\ ~ev.visible)
    => (visible = ev.visible /\ windowOps = <<>>)

\* C7 amended: "show" while the window is visible leaves it visible and
\* "hide" while it is hidden leaves it hidden, but the handler does not look
\* at the state: whenever the main window exists it still issues show and
\* set_focus (for "show") or hide (for "hide").
C7_RepeatedShowHideKeepsVisibility ==
    /\ (ev.op = "menu" /\ ev.id = "show" /\ ev.visible)
       => (visible /\ windowOps = <<"show", "set_focus">>)
    /\ (ev.op = "menu" /\ ev.id = "hide" /\ ~ev.visible)
       => (~visible /\ windowOps = IF ev.exists THEN <<"hide">> ELSE <<>>)

C7_Witness ==
    /\ ev.op = "menu"
    /\ ev.id = "show"
    /\ ev.visible
    /\ visible
    /\ windowOps = <<"show", "set_focus">>

\* The state a "quit" menu command leaves: exit requested with code 0, no
\* window call, the window as it was.
QuitExits ==
    (ev.op = "menu" /\ ev.id = "quit")
    => /\ exitCode = {0}
       /\ phase = "exited"
       /\ windowOps = <<>>
       /\ visible = ev.visible /\ focused = ev.focused

\* C8: the "quit" menu command, with the window hidden or visible, requests
\* process exit with code 0 and makes no window call; and it is terminal:
\* once the process has exited no step changes anything.
C8_QuitExitsZeroAndIsTerminal ==
    [](QuitExits /\ (phase = "exited" => ev.id = "quit")) /\ [][phase # "exited"]_vars

C8_Witness ==
    /\ ev.op = "menu"
    /\ ev.id = "quit"
    /\ ev.visible
    /\ exitCode = {0}
    /\ phase = "exited"

\* C9: a menu event whose id is none of "show", "hide", "quit" changes
\* nothing: no window call, visibility and focus as before, no exit.
C9_UnknownMenuIdIsNoOp ==
    (ev.op = "menu" /\ ev.id \notin {"show", "hide", "quit"})
    => /\ windowOps = <<>>
       /\ visible = ev.visible /\ focused = ev.focused
       /\ exitCode = {}
       /\ phase = "running"

C9_Witness ==
    /\ ev.op = "menu"
    /\ ev.id = "settings"
    /\ ev.visible
    /\ visible
    /\ phase = "running"

LeftRelease == [type |-> "Click", button |-> "Left", button_state |-> "Up"]

\* C10: a tray icon event shows the window only when it is a click of the
\* left button in the Up state; any other event makes no window call and
\* leaves visibility and focus as they were.
C10_OnlyLeftReleaseShows ==
    ev.op = "tray" =>
       /\ ev.event # LeftRelease =>
             /\ windowOps = <<>>
             /\ visible = ev.visible /\ focused = ev.focused
       /\ (ev.event = LeftRelease /\ ev.exists) => windowOps = <<"show", "set_focus">>
       /\ (phase = "running" /\ exitCode = {})

C10_Witness ==
    /\ ev.op = "tray"
    /\ ev.event = [type |-> "Click", button |-> "Left", button_state |-> "Down"]
    /\ ev.exists
    /\ ~ev.visible
    /\ ~visible
    /\ windowOps = <<>>

\* C11: deep-link events are never buffered or replayed: an activation that
\* arrives while no listener is attached is dropped (nothing is kept for
\* later), and a listener attached afterwards never observes it.
C11_UnheardLinkIsNeverObserved ==
    /\ pending = {}
    /\ \A i \in DOMAIN links : ~links[i].sub => links[i].seen = 0

C11_Witness ==
    /\ ev.op = "subscribe"
    /\ subscribed
    /\ links # <<>>
    /\ ~links[1].sub
    /\ links[1].seen = 0

RECURSIVE Delivered(_)
Delivered(ls) == IF ls = <<>> THEN 0 ELSE Head(ls).seen + Delivered(Tail(ls))

\* C12: each activation is forwarded as a "deep-link" event at most once:
\* the number of events delivered to listeners never exceeds the number of
\* activations received, and no activation is delivered twice.
C12_LinkForwardedAtMostOnce ==
    /\ Delivered(links) <= Len(links)
    /\ \A i \in DOMAIN links : links[i].seen <= 1

C12_Witness ==
    /\ ev.op = "deep_link"
    /\ ev.outcome = "delivered"
    /\ Len(links) = 2
    /\ links[1].seen = 1
    /\ links[2].seen = 1

\* C13 as stated: the registration flag goes from false to true exactly
\* once during startup, so it is set whenever startup is over.
C13_RegisteredOnceStartupIsOver ==
    phase # "setup" => schemeRegistered

\* C13 amended: the flag is false until startup, goes from false to true at
\* most once and only in the setup step (not at all when the registration
\* fails), and is never cleared afterwards; setup runs once, so the scheme
\* is registered once and no second handler is installed.
C13_RegisteredAtMostOnceNeverCleared ==
    /\ [](phase = "setup" => ~schemeRegistered)
    /\ [][/\ schemeRegistered => schemeRegistered'
          /\ schemeRegistered' # schemeRegistered => phase = "setup"
          /\ phase # "setup" => phase' # "setup"]_vars

C13_Witness ==
    /\ ev.op = "deep_link"
    /\ schemeRegistered
    /\ Len(links) = 2
    /\ phase = "running"

\* C14: startup failures are not fatal: when the tray setup fails (menu or
\* icon) or the scheme registration fails, setup still returns Ok and the
\* process keeps running, without a tray or without deep links; a tray
\* failure does not prevent the registration that follows it.
C14_StartupFailuresNotFatal ==
    ev.op = "setup" =>
       /\ ev.ret = "Ok"
       /\ phase = "running"
       /\ exitCode = {}
       /\ trayBuilt <=> ev.id = "tray_ok"
       /\ schemeRegistered <=> ev.outcome = "register_ok"

C14_Witness ==
    /\ ev.op = "setup"
    /\ ev.id = "icon_failed"
    /\ ~trayBuilt
    /\ schemeRegistered
    /\ phase = "running"

\* C15: after a failure of a check, a download or an install (no other
\* flow being in flight), the error is returned to the caller as a reason
\* string and the flow is over, the manager being idle again.
C15_FailureReturnsReasonAndIdles ==
    (/\ \/ ev.op = "invoke" /\ ev.ret = "err"
        \/ ev.op = "checked" /\ ev.outcome = "err"
        \/ ev.op = "installed" /\ ev.ret = "err"
     /\ \A q \in Calls \ {ev.call} : pc[q] = "idle")
    => (ev.ret = "err" /\ pc[ev.call] = "idle")

\* What a show_notification step leaves: the error when the notification
\* could not be shown and success otherwise, the process running, the
\* window as it was.
NotificationReturns ==
    ev.op = "show_notification" =>
       /\ ev.ret = "err" <=> ev.outcome = "show_failed"
       /\ ev.ret = "ok" <=> ev.outcome = "shown"
       /\ phase = "running"
       /\ exitCode = {}
       /\ windowOps = <<>>
       /\ mainExists = ev.exists
       /\ visible = ev.visible /\ focused = ev.focused

\* C16: show_notification returns an error to its caller when the native
\* notification cannot be shown and success otherwise; the process is not
\* terminated, and window visibility and update state are unchanged.
C16_NotificationFailureIsReturned ==
    /\ []NotificationReturns
    /\ [][ev'.op = "show_notification"
          => UNCHANGED <<remote, current, lastCheck, pc, cmd, restartRequested>>]_vars

C16_Witness ==
    /\ ev.op = "show_notification"
    /\ ev.outcome = "show_failed"
    /\ ev.ret = "err"
    /\ pc[1] = "download_and_install"
    /\ visible
    /\ phase = "running"

\* C17: get_system_info is deterministic within a process lifetime: once a
\* call has returned a triple, every later call returns the same triple,
\* whatever tray, update or deep-link steps happen between the calls.
C17_SystemInfoIsDeterministic ==
    [][lastInfo # NoInfo => lastInfo' = lastInfo]_vars

C17_Witness ==
    /\ ev.op = "get_system_info"
    /\ ev.ret = "again"
    /\ lastInfo = get_system_info
    /\ links # <<>>
    /\ pc[1] # "idle"
    /\ ev.visible

\* C18: install_update runs its own check and goes on to download exactly
\* when that check yields an update, whatever an earlier check_for_updates
\* returned; when its check fails it returns Ok without downloading, as in
\* the no-update case; it returns an error only when the updater cannot be
\* obtained or download_and_install fails.
C18_InstallSwallowsCheckError ==
    ev.id = "install_update" =>
       /\ ev.op = "checked" =>
             /\ pc[ev.call] = "download_and_install" <=> ev.outcome = "some"
             /\ ev.outcome # "some" => (ev.ret = "ok" /\ pc[ev.call] = "idle")
       /\ ev.ret = "err" => ev.op \in {"invoke", "installed"}

C18_Witness ==
    /\ ev.op = "checked"
    /\ ev.id = "install_update"
    /\ ev.outcome = "err"
    /\ ev.ret = "ok"
    /\ lastCheck = "true"
    /\ pc[ev.call] = "idle"

\* What a "show" menu command and a left-button release leave alike: show
\* and then set_focus when the main window exists, no call otherwise, and
\* nothing else changed.
ShowsAndFocuses ==
    (\/ ev.op = "menu" /\ ev.id = "show"
     \/ ev.op = "tray" /\ ev.event = LeftRelease)
    => /\ windowOps = IF ev.exists THEN <<"show", "set_focus">> ELSE <<>>
       /\ mainExists = ev.exists
       /\ phase = "running"
       /\ exitCode = {}

\* C19: a left-button release on the tray icon has the same effect as the
\* "show" menu command in every state: if the main window exists it is
\* shown and then focused, in that order, and nothing else changes; a step
\* is a possible effect of the one exactly when it is of the other.
C19_LeftReleaseSameAsShow ==
    /\ []ShowsAndFocuses
    /\ [][(phase = "running" /\ trayBuilt)
          => (Perform(TrayIconCommand(LeftRelease)) <=> Perform(MenuCommand("show")))]_vars

C19_Witness ==
    /\ ev.op = "tray"
    /\ ev.event = LeftRelease
    /\ ev.exists
    /\ ~ev.visible
    /\ visible
    /\ focused
    /\ windowOps = <<"show", "set_focus">>

\* C20: tray handling only requests show, set_focus and hide on the window
\* "main" and never creates or destroys a window: the window exists after a
\* tray or menu event exactly when it did before, and when the lookup of
\* "main" finds no window the event makes no call, changes nothing and
\* raises no error.
C20_TrayNeverCreatesOrDestroysWindows ==
    ev.op \in {"menu", "tray"} =>
       /\ mainExists = ev.exists
       /\ \A i \in DOMAIN windowOps : windowOps[i] \in {"show", "set_focus", "hide"}
       /\ ~ev.exists =>
             /\ windowOps = <<>>
             /\ ~visible /\ ~focused
             /\ ev.id # "quit" => (phase = "running" /\ exitCode = {})

C20_Witness ==
    /\ ev.op = "menu"
    /\ ev.id = "show"
    /\ ~ev.exists
    /\ ~mainExists
    /\ ~visible
    /\ windowOps = <<>>

====
